---------------------------- MODULE Spec2Model ----------------------------
(***************************************************************************)
(* Galactic Grip: the simulation driver (app/page.tsx), the coverage       *)
(* resolver and the handshake / out-of-coverage trackers                   *)
(* (components/Earth.tsx) and the beacon manager                           *)
(* (components/HandshakeStatsPanel.tsx).                                   *)
(*                                                                         *)
(* Numbers.  Times are whole seconds.  Lengths are whole kilometres (the   *)
(* source divides every length by SCALE; the cone test is invariant under  *)
(* that common factor).  Angles are multiples of 360/AngleSteps degrees,   *)
(* and cos / sin are read from tables holding 1000 * the value.            *)
(***************************************************************************)
EXTENDS Integers, Sequences, FiniteSets, TLC

(***************************************************************************)
(* Program constants                                                       *)
(***************************************************************************)
SIM_DURATION == 86400
DEFAULT_TIME_SCALE == 10800
EARTH_RADIUS == 6378
CONE_RADIUS == 2297
CONE_HEIGHT_FACTOR == 428
MaxBeacons == 3

(***************************************************************************)
(* Bounds of the model                                                     *)
(***************************************************************************)
\* steps the wall clock takes after page load
MaxWallSteps == 2
\* beacon ids the beacon manager hands out
MaxBeaconIds == 1
\* entries a duration list may hold before recording stops
MaxLen == 2
\* beacon ids handed out when the beacon manager is exercised on its own
MaxManagerIds == 7
\* beacon ids handed out when the beacon list changes during a run
MaxRunIds == 3

\* seconds per step of the wall clock: at the default time scale two steps
\* are one simulated day
WallStep == SIM_DURATION \div (2 * DEFAULT_TIME_SCALE)

\* the values the time-scale slider is moved to (its range is 1..10800)
TimeScales == {DEFAULT_TIME_SCALE \div 2, DEFAULT_TIME_SCALE}
\* the values the timeline slider is dragged to (its range is 0..86400)
ScrubTimes == {0, SIM_DURATION \div 4, SIM_DURATION}

(***************************************************************************)
(* Fixed-point arithmetic                                                  *)
(***************************************************************************)
CosTable ==
  << 1000, 985, 940, 866, 766, 643, 500, 342, 174, 0, -174, -342, -500,
     -643, -766, -866, -940, -985, -1000, -985, -940, -866, -766, -643,
     -500, -342, -174, 0, 174, 342, 500, 643, 766, 866, 940, 985 >>

AngleSteps == Len(CosTable)

Cos(k) == CosTable[(k % AngleSteps) + 1]

Sin(k) == CosTable[((k + AngleSteps - AngleSteps \div 4) % AngleSteps) + 1]

\* degrees to angle steps
DegToSteps(deg) == (AngleSteps * deg) \div 360

\* x / 1000 rounded to the nearest integer
Milli(x) == (x + 500) \div 1000

RECURSIVE SqrtSearch(_, _, _)
SqrtSearch(x, lo, hi) ==
  IF lo >= hi THEN lo
  ELSE LET mid == (lo + hi + 1) \div 2
       IN  IF mid * mid <= x THEN SqrtSearch(x, mid, hi)
           ELSE SqrtSearch(x, lo, mid - 1)

\* Math.sqrt, rounded down; arguments stay below 46340^2
Sqrt(x) == SqrtSearch(x, 0, 46340)

Dot(a, b) == a[1] * b[1] + a[2] * b[2] + a[3] * b[3]

VecSub(a, b) == << a[1] - b[1], a[2] - b[2], a[3] - b[3] >>

VecLength(a) == Sqrt(Dot(a, a))

\* THREE.Matrix4.makeRotationY(theta) applied to v
RotateY(v, k) ==
  << Milli(Cos(k) * v[1] + Sin(k) * v[3]),
     v[2],
     Milli(Cos(k) * v[3] - Sin(k) * v[1]) >>

\* THREE.Matrix4.makeRotationX(theta) applied to v
RotateX(v, k) ==
  << v[1],
     Milli(Cos(k) * v[2] - Sin(k) * v[3]),
     Milli(Sin(k) * v[2] + Cos(k) * v[3]) >>

(***************************************************************************)
(* The satellite catalog (satellite1.json is read-only input).  period is  *)
(* in hours, as a fraction <<numerator, denominator>>; EPOCH is in seconds *)
(* relative to the wall-clock time of page load.                           *)
(***************************************************************************)
satelliteData ==
  << [OBJECT_NAME |-> "SAT-A", altitude |-> 780, period |-> <<157, 100>>,
      INCLINATION |-> 0, RA_OF_ASC_NODE |-> 40, ARG_OF_PERICENTER |-> 320,
      MEAN_ANOMALY |-> 355, EPOCH |-> 0],
     [OBJECT_NAME |-> "SAT-B", altitude |-> 780, period |-> <<157, 100>>,
      INCLINATION |-> 0, RA_OF_ASC_NODE |-> 0, ARG_OF_PERICENTER |-> 0,
      MEAN_ANOMALY |-> 354, EPOCH |-> 0],
     [OBJECT_NAME |-> "SAT-C", altitude |-> 780, period |-> <<253, 150>>,
      INCLINATION |-> 0, RA_OF_ASC_NODE |-> 0, ARG_OF_PERICENTER |-> 0,
      MEAN_ANOMALY |-> 348, EPOCH |-> -200] >>

SatIds == { satelliteData[i].OBJECT_NAME : i \in 1..Len(satelliteData) }

SeqToSet(s) == { s[i] : i \in 1..Len(s) }

(***************************************************************************)
(* Coverage cone test and coverage resolver                                *)
(***************************************************************************)
\* the cone test without the points on the cone's surface
isBeaconInCone_Open(beaconPos, satPos, satAltitude) ==
  LET len == VecLength(satPos)
      beaconVec == VecSub(beaconPos, satPos)
      h == satAltitude + CONE_HEIGHT_FACTOR
      heightOnAxis == (0 - Dot(beaconVec, satPos)) \div len
      perpendicular ==
        << beaconVec[1] + (satPos[1] * heightOnAxis) \div len,
           beaconVec[2] + (satPos[2] * heightOnAxis) \div len,
           beaconVec[3] + (satPos[3] * heightOnAxis) \div len >>
      radialDist == VecLength(perpendicular)
      allowedRadius == (CONE_RADIUS * heightOnAxis) \div h
  IN  IF heightOnAxis < 0 \/ heightOnAxis > h THEN FALSE
      ELSE radialDist < allowedRadius

\* is the beacon inside the satellite's nadir cone
isBeaconInCone(beaconPos, satPos, satAltitude) ==
  LET len == VecLength(satPos)
      beaconVec == VecSub(beaconPos, satPos)
      h == satAltitude + CONE_HEIGHT_FACTOR
      \* axis = -satPos / |satPos|
      heightOnAxis == (0 - Dot(beaconVec, satPos)) \div len
      perpendicular ==
        << beaconVec[1] + (satPos[1] * heightOnAxis) \div len,
           beaconVec[2] + (satPos[2] * heightOnAxis) \div len,
           beaconVec[3] + (satPos[3] * heightOnAxis) \div len >>
      radialDist == VecLength(perpendicular)
      allowedRadius == (CONE_RADIUS * heightOnAxis) \div h
  IN  IF heightOnAxis < 0 \/ heightOnAxis > h THEN FALSE
      ELSE radialDist <= allowedRadius

\* 2 * PI * sqrt(orbitRadius^3 / MU), MU = 398600.4418 km^3/s^2
BeaconPeriodSeconds(altitude) ==
  LET orbitRadius == EARTH_RADIUS + altitude
      cubeOverMu == (((orbitRadius * orbitRadius) \div 3986) * orbitRadius) \div 100
  IN  (6283 * Sqrt(cubeOverMu)) \div 1000

\* the beacon's position as the resolver computes it: in the x-z plane
BeaconPositionInResolver(beaconConfig, clampedTime) ==
  LET orbitRadius == EARTH_RADIUS + beaconConfig.altitude
      periodSeconds == BeaconPeriodSeconds(beaconConfig.altitude)
      t == (AngleSteps * (clampedTime % periodSeconds)) \div periodSeconds
  IN  << Milli(Cos(t) * orbitRadius), 0, Milli(Sin(t) * orbitRadius) >>

\* the satellite's position at clampedTime, read at wall-clock time wall
SatellitePosition(sat, clampedTime, wall) ==
  LET satOrbitRadius == EARTH_RADIUS + sat.altitude
      periodSeconds == (sat.period[1] * 3600) \div sat.period[2]
      timeSinceEpoch == wall - sat.EPOCH
      \* phase = speed * clampedTime + meanAnomalyRad + phaseOffset, in
      \* 360ths of a degree-second so that the sum is exact
      phaseNum == ((clampedTime + timeSinceEpoch) * 360
                     + sat.MEAN_ANOMALY * periodSeconds) % (360 * periodSeconds)
      phase == (AngleSteps * phaseNum) \div (360 * periodSeconds)
      inPlane == << Milli(Cos(phase) * satOrbitRadius), 0,
                    Milli(Sin(phase) * satOrbitRadius) >>
  IN  RotateY(RotateX(RotateY(inPlane, DegToSteps(sat.ARG_OF_PERICENTER)),
                      DegToSteps(sat.INCLINATION)),
              DegToSteps(sat.RA_OF_ASC_NODE))

\* the beacon's position as the scene computes it: on its inclined plane
getOrbitalPosition(altitude, time, inclination, isSunSync, lst) ==
  LET orbitRadius == EARTH_RADIUS + altitude
      periodSeconds == BeaconPeriodSeconds(altitude)
      t == (AngleSteps * (time % periodSeconds)) \div periodSeconds
      raan == IF isSunSync THEN DegToSteps(lst * 15) - AngleSteps \div 4 ELSE 0
      pos == << Milli(Cos(t) * orbitRadius), 0, Milli(Sin(t) * orbitRadius) >>
  IN  RotateY(RotateX(pos, DegToSteps(inclination)), raan)

Min(a, b) == IF a < b THEN a ELSE b

\* the satellites covering each beacon: beacon id -> set of satellite names
getCoveringIridiumsByBeacon(time, configs, catalog, wall) ==
  LET clampedTime == Min(time, 86400)
      ids == { configs[i].id : i \in 1..Len(configs) }
      cfg(b) == CHOOSE c \in SeqToSet(configs) : c.id = b
  IN  [ b \in ids |->
          { catalog[j].OBJECT_NAME : j \in
              { k \in 1..Len(catalog) :
                  isBeaconInCone(BeaconPositionInResolver(cfg(b), clampedTime),
                                 SatellitePosition(catalog[k], clampedTime, wall),
                                 catalog[k].altitude) } } ]

(***************************************************************************)
(* State                                                                   *)
(***************************************************************************)
VARIABLES
  \* app/page.tsx: Home
  simulationTime, isRunning, isPaused, timeScale, stats, lastUpdateTime,
  \* the beacon list and the beacon manager's id counter
  beaconConfigs, beaconCounter,
  \* components/Earth.tsx: refs of Earth
  handshakeRefs, beaconOutCoverageRefs, perBeaconCoveringRef, prevStatsRef,
  \* the wall clock (Date.now()), in seconds since page load
  now

vars == << simulationTime, isRunning, isPaused, timeScale, stats,
           lastUpdateTime, beaconConfigs, beaconCounter, handshakeRefs,
           beaconOutCoverageRefs, perBeaconCoveringRef, prevStatsRef, now >>

initialStats ==
  [totalHandshakes |-> 0, totalOutOfCoverageTime |-> 0,
   avgOutOfCoverageTime |-> 0, perSatellite |-> << >>]

\* prevStatsRef.current before the first aggregation
NullStats == [isNull |-> TRUE]

\* lastOutOfCoverageTime is number | null: << >> is null, <<t>> is t
Null == << >>

BeaconIds(configs) == { configs[i].id : i \in 1..Len(configs) }

ZeroHandshakeRef ==
  [handshakeCount |-> 0, handshakeDurations |-> << >>,
   isCoveredLast |-> FALSE, lastHandshakeStart |-> 0]

InitialOutCoverageRef ==
  [outOfCoverageDurations |-> << >>, lastOutOfCoverageTime |-> <<0>>,
   isOutOfCoverage |-> TRUE]

RECURSIVE SumSeq(_)
SumSeq(s) == IF s = << >> THEN 0 ELSE Head(s) + SumSeq(Tail(s))

RECURSIVE Concat(_)
Concat(ss) == IF ss = << >> THEN << >> ELSE Head(ss) \o Concat(Tail(ss))

(***************************************************************************)
(* Earth: first effect (coverage), run when simulationTime, beaconConfigs  *)
(* or timeScale changed                                                    *)
(***************************************************************************)
\* handshakeRefs.current = {} and a zero entry per beacon and satellite
ResetHandshakeRefs(configs) ==
  [ b \in BeaconIds(configs) |-> [ s \in SatIds |-> ZeroHandshakeRef ] ]

CoverageEffectRefs(time, configs, refs) ==
  IF time = 0 THEN ResetHandshakeRefs(configs) ELSE refs

(***************************************************************************)
(* Earth: second effect (trackers and stats), run when simulationTime,     *)
(* isRunning, beaconConfigs or timeScale changed                           *)
(***************************************************************************)
\* create the handshake entries of beacons not seen before
InitHandshakeRefs(configs, refs) ==
  [ b \in DOMAIN refs \cup BeaconIds(configs) |->
      IF b \in DOMAIN refs THEN refs[b]
      ELSE [ s \in SatIds |-> ZeroHandshakeRef ] ]

\* new out-of-coverage entries that take the beacon to be in coverage
InitOutCoverageRefs_InCoverage(configs, refs) ==
  [ b \in DOMAIN refs \cup BeaconIds(configs) |->
      IF b \in DOMAIN refs THEN refs[b]
      ELSE [outOfCoverageDurations |-> << >>, lastOutOfCoverageTime |-> Null,
            isOutOfCoverage |-> FALSE] ]

\* create the out-of-coverage entries of beacons not seen before
InitOutCoverageRefs(configs, refs) ==
  [ b \in DOMAIN refs \cup BeaconIds(configs) |->
      IF b \in DOMAIN refs THEN refs[b] ELSE InitialOutCoverageRef ]

\* one step of a pair that never notes when a handshake starts
HandshakeStep_NoStartTime(ref, isNowCovered, time) ==
  LET started == isNowCovered /\ ~ref.isCoveredLast
      ended == ~isNowCovered /\ ref.isCoveredLast
  IN  [handshakeCount |->
         IF started THEN ref.handshakeCount + 1 ELSE ref.handshakeCount,
       lastHandshakeStart |-> ref.lastHandshakeStart,
       handshakeDurations |->
         IF ended /\ ref.lastHandshakeStart > 0
         THEN Append(ref.handshakeDurations, time - ref.lastHandshakeStart)
         ELSE ref.handshakeDurations,
       isCoveredLast |-> isNowCovered]

\* one step of a pair that counts every covered step as a start
HandshakeStep_CountsCovered(ref, isNowCovered, time) ==
  LET ended == ~isNowCovered /\ ref.isCoveredLast
  IN  [handshakeCount |->
         IF isNowCovered THEN ref.handshakeCount + 1 ELSE ref.handshakeCount,
       lastHandshakeStart |->
         IF isNowCovered THEN time ELSE ref.lastHandshakeStart,
       handshakeDurations |->
         IF ended /\ ref.lastHandshakeStart > 0
         THEN Append(ref.handshakeDurations, time - ref.lastHandshakeStart)
         ELSE ref.handshakeDurations,
       isCoveredLast |-> isNowCovered]

\* one step of a pair that records a duration at every end
HandshakeStep_NoStartGuard(ref, isNowCovered, time) ==
  LET started == isNowCovered /\ ~ref.isCoveredLast
      ended == ~isNowCovered /\ ref.isCoveredLast
  IN  [handshakeCount |->
         IF started THEN ref.handshakeCount + 1 ELSE ref.handshakeCount,
       lastHandshakeStart |->
         IF started THEN time ELSE ref.lastHandshakeStart,
       handshakeDurations |->
         IF ended
         THEN Append(ref.handshakeDurations, time - ref.lastHandshakeStart)
         ELSE ref.handshakeDurations,
       isCoveredLast |-> isNowCovered]

\* one step of a pair whose handshakes are timed but never counted
HandshakeStep_Uncounted(ref, isNowCovered, time) ==
  LET started == isNowCovered /\ ~ref.isCoveredLast
      ended == ~isNowCovered /\ ref.isCoveredLast
      duration == time - ref.lastHandshakeStart
  IN  [handshakeCount |-> ref.handshakeCount,
       lastHandshakeStart |->
         IF started THEN time ELSE ref.lastHandshakeStart,
       handshakeDurations |->
         IF ended /\ ref.lastHandshakeStart > 0
         THEN Append(ref.handshakeDurations, duration)
         ELSE ref.handshakeDurations,
       isCoveredLast |-> isNowCovered]

\* one (beacon, satellite) pair, one step
HandshakeStep(ref, isNowCovered, time) ==
  LET started == isNowCovered /\ ~ref.isCoveredLast
      ended == ~isNowCovered /\ ref.isCoveredLast
      duration == time - ref.lastHandshakeStart
  IN  [handshakeCount |->
         IF started THEN ref.handshakeCount + 1 ELSE ref.handshakeCount,
       lastHandshakeStart |->
         IF started THEN time ELSE ref.lastHandshakeStart,
       handshakeDurations |->
         IF ended /\ ref.lastHandshakeStart > 0
         THEN Append(ref.handshakeDurations, duration)
         ELSE ref.handshakeDurations,
       isCoveredLast |-> isNowCovered]

\* perBeaconCoveringRef.current[beaconId]?.includes(satId) || false
IsCoveredBy(covering, b, s) == b \in DOMAIN covering /\ s \in covering[b]

TrackHandshakes(configs, refs, covering, time) ==
  [ b \in DOMAIN refs |->
      IF b \in BeaconIds(configs)
      THEN [ s \in SatIds |->
               HandshakeStep(refs[b][s], IsCoveredBy(covering, b, s), time) ]
      ELSE refs[b] ]

\* one step of a beacon that never notes when it loses coverage
OutOfCoverageStep_NoMark(ref, isNowCovered, time) ==
  IF ~isNowCovered /\ ~ref.isOutOfCoverage
  THEN [ref EXCEPT !.isOutOfCoverage = TRUE]
  ELSE IF isNowCovered /\ ref.isOutOfCoverage
  THEN [outOfCoverageDurations |->
          IF ref.lastOutOfCoverageTime # Null
          THEN Append(ref.outOfCoverageDurations,
                      time - ref.lastOutOfCoverageTime[1])
          ELSE ref.outOfCoverageDurations,
        lastOutOfCoverageTime |-> Null,
        isOutOfCoverage |-> FALSE]
  ELSE ref

\* one step of a beacon that keeps its marker when coverage returns
OutOfCoverageStep_KeepsMarker(ref, isNowCovered, time) ==
  IF ~isNowCovered /\ ~ref.isOutOfCoverage
  THEN [ref EXCEPT !.lastOutOfCoverageTime = <<time>>,
                   !.isOutOfCoverage = TRUE]
  ELSE IF isNowCovered /\ ref.isOutOfCoverage
  THEN [outOfCoverageDurations |->
          IF ref.lastOutOfCoverageTime # Null
          THEN Append(ref.outOfCoverageDurations,
                      time - ref.lastOutOfCoverageTime[1])
          ELSE ref.outOfCoverageDurations,
        lastOutOfCoverageTime |-> ref.lastOutOfCoverageTime,
        isOutOfCoverage |-> FALSE]
  ELSE ref

\* one beacon, one step
OutOfCoverageStep(ref, isNowCovered, time) ==
  IF ~isNowCovered /\ ~ref.isOutOfCoverage
  THEN [ref EXCEPT !.lastOutOfCoverageTime = <<time>>,
                   !.isOutOfCoverage = TRUE]
  ELSE IF isNowCovered /\ ref.isOutOfCoverage
  THEN [outOfCoverageDurations |->
          IF ref.lastOutOfCoverageTime # Null
          THEN Append(ref.outOfCoverageDurations,
                      time - ref.lastOutOfCoverageTime[1])
          ELSE ref.outOfCoverageDurations,
        lastOutOfCoverageTime |-> Null,
        isOutOfCoverage |-> FALSE]
  ELSE ref

HasCoverage(covering, b) == b \in DOMAIN covering /\ covering[b] # {}

TrackOutOfCoverage(configs, refs, covering, time) ==
  [ b \in DOMAIN refs |->
      IF b \in BeaconIds(configs)
      THEN OutOfCoverageStep(refs[b], HasCoverage(covering, b), time)
      ELSE refs[b] ]

\* the end-of-simulation condition of both closing blocks
AtSimulationEnd(time, running) == time >= 86400 \/ ~running

CloseHandshake(ref, time) ==
  IF ref.isCoveredLast /\ ref.lastHandshakeStart > 0
  THEN [ref EXCEPT
          !.handshakeDurations =
             Append(@, Min(time, 86400) - ref.lastHandshakeStart),
          !.isCoveredLast = FALSE,
          !.lastHandshakeStart = 0]
  ELSE ref

CloseOpenHandshakes(configs, refs, time, running) ==
  IF AtSimulationEnd(time, running)
  THEN [ b \in DOMAIN refs |->
          IF b \in BeaconIds(configs)
          THEN [ s \in SatIds |-> CloseHandshake(refs[b][s], time) ]
          ELSE refs[b] ]
  ELSE refs

CloseOutOfCoverage(ref, time) ==
  IF ref.isOutOfCoverage /\ ref.lastOutOfCoverageTime # Null
  THEN [ref EXCEPT
          !.outOfCoverageDurations =
             Append(@, Min(time, 86400) - ref.lastOutOfCoverageTime[1]),
          !.lastOutOfCoverageTime = Null]
  ELSE ref

CloseOpenOutOfCoverage(configs, refs, time, running) ==
  IF AtSimulationEnd(time, running)
  THEN [ b \in DOMAIN refs |->
          IF b \in BeaconIds(configs)
          THEN CloseOutOfCoverage(refs[b], time)
          ELSE refs[b] ]
  ELSE refs

\* the totals reported as they are
ScaleToDay_Unscaled(total, totalTime) == total

\* total * (86400 / totalTime); exact when totalTime is a multiple of 100
ScaleToDay(total, totalTime) == (total * 864) \div (totalTime \div 100)

\* the averages left undivided
Average_Undivided(total, n) == total

\* x / n for the averages, 0 when there is nothing to average
Average(total, n) == IF n > 0 THEN total \div n ELSE 0

BeaconStats(beaconId, beaconRefs, outRef) ==
  LET allDurations ==
        Concat([ j \in 1..Len(satelliteData) |->
                   beaconRefs[satelliteData[j].OBJECT_NAME].handshakeDurations ])
      totalHandshakes ==
        SumSeq([ j \in 1..Len(satelliteData) |->
                   beaconRefs[satelliteData[j].OBJECT_NAME].handshakeCount ])
      totalInCoverageTime == SumSeq(allDurations)
      totalOutOfCoverageTime == SumSeq(outRef.outOfCoverageDurations)
      totalTime == totalInCoverageTime + totalOutOfCoverageTime
      scaled == totalTime > 86400
  IN  [beaconId |-> beaconId,
       totalInCoverageTime |->
         IF scaled THEN ScaleToDay(totalInCoverageTime, totalTime)
         ELSE totalInCoverageTime,
       avgInCoverageTime |-> Average(totalInCoverageTime, Len(allDurations)),
       handshakeCount |-> totalHandshakes,
       totalOutOfCoverageTime |->
         IF scaled THEN ScaleToDay(totalOutOfCoverageTime, totalTime)
         ELSE totalOutOfCoverageTime,
       avgOutOfCoverageTime |->
         Average(totalOutOfCoverageTime, Len(outRef.outOfCoverageDurations))]

\* the rows of one beacon in the per-satellite table
SatelliteRows(beaconId, beaconRefs) ==
  [ j \in 1..Len(satelliteData) |->
      LET ref == beaconRefs[satelliteData[j].OBJECT_NAME]
      IN  [beaconId |-> beaconId,
           satId |-> satelliteData[j].OBJECT_NAME,
           count |-> ref.handshakeCount,
           total |-> SumSeq(ref.handshakeDurations)] ]

\* the aggregation without the per-satellite table
AggregateStats_NoSatelliteRows(configs, hRefs, oRefs) ==
  [perBeacon |->
     [ i \in 1..Len(configs) |->
         BeaconStats(configs[i].id, hRefs[configs[i].id], oRefs[configs[i].id]) ],
   perSatellite |-> << >>]

AggregateStats(configs, hRefs, oRefs) ==
  [perBeacon |->
     [ i \in 1..Len(configs) |->
         BeaconStats(configs[i].id, hRefs[configs[i].id], oRefs[configs[i].id]) ],
   perSatellite |->
     Concat([ i \in 1..Len(configs) |->
                SatelliteRows(configs[i].id, hRefs[configs[i].id]) ])]

\* the tracker part of the second effect: [h |-> handshakeRefs, o |-> out refs]
AdvanceTrackers(time, running, configs, hRefs, oRefs, covering) ==
  LET h1 == InitHandshakeRefs(configs, hRefs)
      o1 == InitOutCoverageRefs(configs, oRefs)
      h2 == TrackHandshakes(configs, h1, covering, time)
      o2 == TrackOutOfCoverage(configs, o1, covering, time)
  IN  [h |-> CloseOpenHandshakes(configs, h2, time, running),
       o |-> CloseOpenOutOfCoverage(configs, o2, time, running)]

\* the model stops tracking once a duration list of a listed beacon is full
RoomToRecord(configs) ==
  \A b \in BeaconIds(configs) :
    /\ b \in DOMAIN handshakeRefs =>
         \A s \in SatIds : Len(handshakeRefs[b][s].handshakeDurations) < MaxLen
    /\ b \in DOMAIN beaconOutCoverageRefs =>
         Len(beaconOutCoverageRefs[b].outOfCoverageDurations) < MaxLen

(***************************************************************************)
(* One commit of Home and Earth: the new props, then Earth's two effects   *)
(* in order, each only when one of its dependencies changed.               *)
(***************************************************************************)
\* the second effect without its early return
TrackingActive_NoEarlyReturn(statsDeps, running) == statsDeps

\* the second effect goes past its early return: if (!isRunning) return
TrackingActive(statsDeps, running) == statsDeps /\ running

\* the refs and the stats after the second effect ran at `time` on `covering`
StatsEffect(time, running, configs, hRefs, covering, handlerStats) ==
  LET adv == AdvanceTrackers(time, running, configs, hRefs,
                             beaconOutCoverageRefs, covering)
      newStats == AggregateStats(configs, adv.h, adv.o)
      changed == newStats # prevStatsRef
  IN  /\ handshakeRefs' = adv.h
      /\ beaconOutCoverageRefs' = adv.o
      /\ prevStatsRef' = IF changed THEN newStats ELSE prevStatsRef
      /\ stats' = IF changed THEN newStats ELSE handlerStats

\* `resolved` is what the resolver returns for (time, configs) in this commit
Commit(time, running, paused, scale, configs, configsChanged, handlerStats, resolved) ==
  LET coverageDeps == time # simulationTime \/ configsChanged \/ scale # timeScale
      statsDeps == coverageDeps \/ running # isRunning
      h0 == IF coverageDeps
            THEN CoverageEffectRefs(time, configs, handshakeRefs)
            ELSE handshakeRefs
      covering == IF coverageDeps THEN resolved ELSE perBeaconCoveringRef
  IN  /\ simulationTime' = time
      /\ isRunning' = running
      /\ isPaused' = paused
      /\ timeScale' = scale
      /\ beaconConfigs' = configs
      /\ perBeaconCoveringRef' = covering
      /\ IF TrackingActive(statsDeps, running)
         THEN StatsEffect(time, running, configs, h0, covering, handlerStats)
         ELSE /\ handshakeRefs' = h0
              /\ stats' = handlerStats
              /\ UNCHANGED << beaconOutCoverageRefs, prevStatsRef >>

\* a commit of the page: the resolver reads the catalog and the wall clock
Render(time, running, paused, scale, configs, configsChanged, handlerStats) ==
  /\ running => RoomToRecord(configs)
  /\ Commit(time, running, paused, scale, configs, configsChanged, handlerStats,
            getCoveringIridiumsByBeacon(time, configs, satelliteData, now))

(***************************************************************************)
(* Home: the handlers of app/page.tsx                                      *)
(***************************************************************************)
\* Start / Continue button, disabled while running and not paused
handleStart ==
  /\ ~(isRunning /\ ~isPaused)
  /\ lastUpdateTime' = now
  /\ IF isPaused
     THEN Render(simulationTime, TRUE, FALSE, timeScale, beaconConfigs, FALSE, stats)
     ELSE Render(0, TRUE, FALSE, timeScale, beaconConfigs, FALSE, initialStats)
  /\ UNCHANGED << beaconCounter, now >>

\* a Pause button that leaves isRunning alone
handlePause_KeepsRunning ==
  /\ isRunning /\ ~isPaused
  /\ lastUpdateTime' = now
  /\ Render(simulationTime, isRunning, TRUE, timeScale, beaconConfigs, FALSE, stats)
  /\ UNCHANGED << beaconCounter, now >>

\* Pause button, disabled unless running and not paused
handlePause ==
  /\ isRunning /\ ~isPaused
  /\ lastUpdateTime' = now
  /\ Render(simulationTime, FALSE, TRUE, timeScale, beaconConfigs, FALSE, stats)
  /\ UNCHANGED << beaconCounter, now >>

\* Reset button
handleReset ==
  /\ lastUpdateTime' = now
  /\ Render(0, FALSE, FALSE, timeScale, beaconConfigs, FALSE, initialStats)
  /\ UNCHANGED << beaconCounter, now >>

\* timeline slider
handleTimeChange ==
  \E newTime \in ScrubTimes :
    /\ newTime # simulationTime
    /\ Render(newTime, isRunning, isPaused, timeScale, beaconConfigs, FALSE, stats)
    /\ UNCHANGED << lastUpdateTime, beaconCounter, now >>

\* time-scale slider
handleOrbitConfigChange ==
  \E scale \in TimeScales :
    /\ scale # timeScale
    /\ Render(simulationTime, isRunning, isPaused, scale, beaconConfigs, FALSE, stats)
    /\ UNCHANGED << lastUpdateTime, beaconCounter, now >>

\* the updater of setSimulationTime without the clamp at the horizon
NextSimulationTime_NoClamp(prev, deltaTime, scale) == prev + deltaTime * scale

\* an updater of setSimulationTime that ends the run half a day short
NextSimulationTime_StopsShort(prev, deltaTime, scale) ==
  LET newTime == prev + deltaTime * scale
  IN  IF newTime >= SIM_DURATION THEN SIM_DURATION \div 2 ELSE newTime

\* the value the updater of setSimulationTime returns
NextSimulationTime(prev, deltaTime, scale) ==
  LET newTime == prev + deltaTime * scale
  IN  IF newTime >= SIM_DURATION THEN SIM_DURATION ELSE newTime

\* one animation frame of the clock driver
updateSimulation ==
  /\ isRunning /\ ~isPaused
  /\ LET deltaTime == now - lastUpdateTime
         newTime == simulationTime + deltaTime * timeScale
         time == NextSimulationTime(simulationTime, deltaTime, timeScale)
     IN  IF newTime >= SIM_DURATION
         THEN Render(time, FALSE, FALSE, timeScale, beaconConfigs, FALSE, stats)
         ELSE Render(time, isRunning, isPaused, timeScale, beaconConfigs, FALSE, stats)
  /\ lastUpdateTime' = now
  /\ UNCHANGED << beaconCounter, now >>

(***************************************************************************)
(* BeaconManager: the handlers of components/HandshakeStatsPanel.tsx       *)
(***************************************************************************)
\* the Add Beacon button is never disabled
AddBeaconEnabled_Always(beacons) == TRUE

\* the Add Beacon button is enabled: disabled={beacons.length >= 3}
AddBeaconEnabled(beacons) == Len(beacons) < MaxBeacons

\* Add Beacon button; the id is `beacon-${Date.now()}-${counter++}`, of
\* which the model keeps the counter; maxIds bounds the ids handed out
AddBeacon(maxIds) ==
  /\ AddBeaconEnabled(beaconConfigs)
  /\ beaconCounter < maxIds
  /\ LET newBeacon == [id |-> beaconCounter, isSunSync |-> TRUE, altitude |-> 500,
                       lst |-> 12, inclination |-> 64]
     IN  Render(simulationTime, isRunning, isPaused, timeScale,
                Append(beaconConfigs, newBeacon), TRUE, stats)
  /\ beaconCounter' = beaconCounter + 1
  /\ UNCHANGED << lastUpdateTime, now >>

handleAddBeacon == AddBeacon(MaxBeaconIds)

\* the x of a beacon tab
handleRemoveBeacon ==
  \E id \in BeaconIds(beaconConfigs) :
    /\ Render(simulationTime, isRunning, isPaused, timeScale,
              SelectSeq(beaconConfigs, LAMBDA b : b.id # id), TRUE, stats)
    /\ UNCHANGED << lastUpdateTime, beaconCounter, now >>

\* the values the altitude slider of a beacon is moved to (range 120..700)
BeaconAltitudes == {120, 700}

\* a beacon's altitude slider, disabled while running or paused
handleConfigChange ==
  \E id \in BeaconIds(beaconConfigs), altitude \in BeaconAltitudes :
    /\ ~(isRunning \/ isPaused)
    /\ \E i \in 1..Len(beaconConfigs) :
         beaconConfigs[i].id = id /\ beaconConfigs[i].altitude # altitude
    /\ LET updatedBeacons ==
             [ i \in 1..Len(beaconConfigs) |->
                 IF beaconConfigs[i].id = id
                 THEN [beaconConfigs[i] EXCEPT !.altitude = altitude]
                 ELSE beaconConfigs[i] ]
       IN  Render(simulationTime, isRunning, isPaused, timeScale,
                  updatedBeacons, TRUE, stats)
    /\ UNCHANGED << lastUpdateTime, beaconCounter, now >>

(***************************************************************************)
(* The wall clock                                                          *)
(***************************************************************************)
WallClock ==
  /\ now < MaxWallSteps * WallStep
  /\ now' = now + WallStep
  /\ UNCHANGED << simulationTime, isRunning, isPaused, timeScale, stats,
                  lastUpdateTime, beaconConfigs, beaconCounter, handshakeRefs,
                  beaconOutCoverageRefs, perBeaconCoveringRef, prevStatsRef >>

(***************************************************************************)
(* Specification                                                           *)
(***************************************************************************)
\* the state after Home and Earth mounted: both effects ran once
Init ==
  /\ simulationTime = 0
  /\ isRunning = FALSE
  /\ isPaused = FALSE
  /\ timeScale = DEFAULT_TIME_SCALE
  /\ stats = initialStats
  /\ lastUpdateTime = 0
  /\ beaconConfigs = << >>
  /\ beaconCounter = 0
  /\ handshakeRefs = ResetHandshakeRefs(<< >>)
  /\ beaconOutCoverageRefs = InitOutCoverageRefs(<< >>, << >>)
  /\ perBeaconCoveringRef = getCoveringIridiumsByBeacon(0, << >>, satelliteData, 0)
  /\ prevStatsRef = NullStats
  /\ now = 0

Next ==
  \/ handleStart
  \/ handlePause
  \/ handleReset
  \/ handleTimeChange
  \/ handleOrbitConfigChange
  \/ updateSimulation
  \/ handleAddBeacon
  \/ handleRemoveBeacon
  \/ WallClock

Spec == Init /\ [][Next]_vars

(***************************************************************************)
(* The same page with the timeline slider left alone: simulated time moves *)
(* only by the clock driver, Start and Reset.                              *)
(***************************************************************************)
NextClock ==
  \/ handleStart
  \/ handlePause
  \/ handleReset
  \/ handleOrbitConfigChange
  \/ updateSimulation
  \/ handleAddBeacon
  \/ handleRemoveBeacon
  \/ WallClock

SpecClock == Init /\ [][NextClock]_vars

(***************************************************************************)
(* The beacon manager on its own, on the page as loaded: beacons are added *)
(* and removed, the simulation is never started.                           *)
(***************************************************************************)
ManagerAddBeacon == AddBeacon(MaxManagerIds)

NextBeacons ==
  \/ ManagerAddBeacon
  \/ handleRemoveBeacon

SpecBeacons == Init /\ [][NextBeacons]_vars

(***************************************************************************)
(* A run during which beacons are added and removed: the timeline slider   *)
(* moves simulated time, the wall clock stands still.                      *)
(***************************************************************************)
RunAddBeacon == AddBeacon(MaxRunIds)

NextListChanges ==
  \/ handleStart
  \/ handleTimeChange
  \/ RunAddBeacon
  \/ handleRemoveBeacon

SpecListChanges == Init /\ [][NextListChanges]_vars

(***************************************************************************)
(* Runs of a beacon whose altitude was set before the run: at some         *)
(* altitudes no satellite covers the beacon at the horizon.                *)
(***************************************************************************)
NextAltitudes ==
  \/ handleStart
  \/ handleTimeChange
  \/ updateSimulation
  \/ handleAddBeacon
  \/ handleConfigChange

SpecAltitudes == Init /\ [][NextAltitudes]_vars

(***************************************************************************)
(* One run from Start to the horizon: every animation frame comes a        *)
(* positive time after the last one, and frames keep coming while the      *)
(* animation effect is mounted (running and not paused).  Pause, Reset and *)
(* the timeline slider are left alone.                                     *)
(***************************************************************************)
\* Start of a fresh run
FreshStart == simulationTime = 0 /\ ~isPaused /\ handleStart

\* one animation frame, WallStep seconds of wall clock after the last one
Tick ==
  /\ isRunning /\ ~isPaused
  /\ now' = now + WallStep
  /\ LET deltaTime == now + WallStep - lastUpdateTime
         newTime == simulationTime + deltaTime * timeScale
         time == NextSimulationTime(simulationTime, deltaTime, timeScale)
         resolved == getCoveringIridiumsByBeacon(time, beaconConfigs, satelliteData,
                                                 now + WallStep)
     IN  IF newTime >= SIM_DURATION
         THEN Commit(time, FALSE, FALSE, timeScale, beaconConfigs, FALSE, stats, resolved)
         ELSE Commit(time, isRunning, isPaused, timeScale, beaconConfigs, FALSE, stats, resolved)
  /\ lastUpdateTime' = now + WallStep
  /\ UNCHANGED beaconCounter

NextRun ==
  \/ FreshStart
  \/ Tick
  \/ handleOrbitConfigChange
  \/ RunAddBeacon

\* weak fairness of Tick: a frame is requested whenever the animation effect
\* is mounted, which is the guard of Tick and so its enabling condition
TickFairness == []<>(~(isRunning /\ ~isPaused)) \/ []<><<Tick>>_vars

SpecRun == Init /\ [][NextRun]_vars /\ TickFairness

(***************************************************************************)
(* The resolver on its own: it is applied once to a beacon, a simulated    *)
(* time and a wall-clock reading drawn from small sets.  The altitudes     *)
(* include values the altitude slider cannot deliver; the catalog has one  *)
(* inclined orbit besides the satellites of the runs.                      *)
(***************************************************************************)
OrbitAltitudes == {-500, 0, 120, 500, 700}

OrbitTimes == { k * (SIM_DURATION \div 16) : k \in 0..16 }

OrbitWallClocks == {0, WallStep, 2 * WallStep}

OrbitCatalog ==
  satelliteData \o
  << [OBJECT_NAME |-> "SAT-D", altitude |-> 780, period |-> <<1674, 1000>>,
      INCLINATION |-> 80, RA_OF_ASC_NODE |-> 130, ARG_OF_PERICENTER |-> 70,
      MEAN_ANOMALY |-> 200, EPOCH |-> -3000],
     [OBJECT_NAME |-> "SAT-E", altitude |-> 452, period |-> <<156, 100>>,
      INCLINATION |-> 0, RA_OF_ASC_NODE |-> 0, ARG_OF_PERICENTER |-> 0,
      MEAN_ANOMALY |-> 10, EPOCH |-> 0] >>

OrbitInit ==
  /\ beaconConfigs \in
       { << [id |-> 0, isSunSync |-> TRUE, altitude |-> a, lst |-> 12,
             inclination |-> 64] >> : a \in OrbitAltitudes }
  /\ simulationTime \in OrbitTimes
  /\ now \in OrbitWallClocks
  /\ isRunning = FALSE
  /\ isPaused = FALSE
  /\ timeScale = DEFAULT_TIME_SCALE
  /\ stats = initialStats
  /\ lastUpdateTime = 0
  /\ beaconCounter = 1
  /\ handshakeRefs = InitHandshakeRefs(<< >>, << >>)
  /\ beaconOutCoverageRefs = InitOutCoverageRefs(<< >>, << >>)
  /\ perBeaconCoveringRef = InitOutCoverageRefs(<< >>, << >>)
  /\ prevStatsRef = NullStats

\* one call of the resolver
ResolveCoverage ==
  /\ DOMAIN perBeaconCoveringRef = {}
  /\ perBeaconCoveringRef' =
       getCoveringIridiumsByBeacon(simulationTime, beaconConfigs, OrbitCatalog, now)
  /\ UNCHANGED << simulationTime, isRunning, isPaused, timeScale, stats,
                  lastUpdateTime, beaconConfigs, beaconCounter, handshakeRefs,
                  beaconOutCoverageRefs, prevStatsRef, now >>

NextOrbits == ResolveCoverage

SpecOrbits == OrbitInit /\ [][NextOrbits]_vars

(***************************************************************************)
(* A run over a stand-in resolver: one beacon, and one satellite whose     *)
(* coverage of it flips every ScenarioPeriod seconds.  The wall clock at   *)
(* page load picks which half-period comes first: at 0 the beacon starts   *)
(* uncovered, at ScenarioPeriod it starts covered.  Frames never jump over *)
(* a flip, so every flip is seen at the second it happens.                 *)
(***************************************************************************)
ScenarioPeriod == 10 * 60
ScenarioEnd == 6 * ScenarioPeriod
\* simulated seconds one frame advances
ScenarioSteps == {ScenarioPeriod \div 12, ScenarioPeriod \div 4, ScenarioPeriod}

ScenarioBeacon ==
  [id |-> 0, isSunSync |-> TRUE, altitude |-> 500, lst |-> 12, inclination |-> 64]

ScenarioSatellite == satelliteData[1].OBJECT_NAME

ScenarioCoverage(time, configs, wall) ==
  [ b \in BeaconIds(configs) |->
      IF ((time + wall) \div ScenarioPeriod) % 2 = 1
      THEN {ScenarioSatellite} ELSE {} ]

\* the page after the beacon was added, before Start
ScenarioInit ==
  /\ now \in {0, ScenarioPeriod}
  /\ simulationTime = 0
  /\ isRunning = FALSE
  /\ isPaused = FALSE
  /\ timeScale = DEFAULT_TIME_SCALE
  /\ stats = initialStats
  /\ lastUpdateTime = 0
  /\ beaconConfigs = << ScenarioBeacon >>
  /\ beaconCounter = 1
  /\ handshakeRefs = ResetHandshakeRefs(beaconConfigs)
  /\ beaconOutCoverageRefs = InitOutCoverageRefs(<< >>, << >>)
  /\ perBeaconCoveringRef = ScenarioCoverage(0, beaconConfigs, now)
  /\ prevStatsRef = NullStats

ScenarioStart ==
  /\ ~isRunning /\ ~isPaused /\ simulationTime = 0
  /\ lastUpdateTime' = now
  /\ Commit(0, TRUE, FALSE, timeScale, beaconConfigs, FALSE, initialStats,
            ScenarioCoverage(0, beaconConfigs, now))
  /\ UNCHANGED << beaconCounter, now >>

ScenarioFrame ==
  /\ isRunning /\ ~isPaused
  /\ \E dt \in ScenarioSteps :
       LET newTime == simulationTime + dt
       IN  /\ newTime <= ScenarioEnd
           /\ simulationTime \div ScenarioPeriod = (newTime - 1) \div ScenarioPeriod
           /\ Commit(newTime, isRunning, isPaused, timeScale, beaconConfigs,
                     FALSE, stats, ScenarioCoverage(newTime, beaconConfigs, now))
  /\ UNCHANGED << lastUpdateTime, beaconCounter, now >>

NextScenario ==
  \/ ScenarioStart
  \/ ScenarioFrame

SpecScenario == ScenarioInit /\ [][NextScenario]_vars

(***************************************************************************)
(* Properties                                                              *)
(***************************************************************************)
\* the (beacon, satellite) pairs of the listed beacons that have a tracker
TrackedPairs ==
  { p \in (BeaconIds(beaconConfigs) \cap DOMAIN handshakeRefs) \X SatIds : TRUE }

\* the listed beacons that have an out-of-coverage tracker
TrackedBeacons == BeaconIds(beaconConfigs) \cap DOMAIN beaconOutCoverageRefs

PairRef(p) == handshakeRefs[p[1]][p[2]]

\* all handshake durations of one beacon, over every satellite
BeaconDurations(b) ==
  Concat([ j \in 1..Len(satelliteData) |->
             handshakeRefs[b][satelliteData[j].OBJECT_NAME].handshakeDurations ])

\* C1: after Reset every pair tracker of the listed beacons is zero (count
\* 0, no durations, not covered) and every out-of-coverage tracker is in
\* its initial state with an empty duration list.
C1_ResetZeroesTrackers ==
  [][ handleReset =>
        /\ \A p \in TrackedPairs' : PairRef(p)' = ZeroHandshakeRef
        /\ \A b \in TrackedBeacons' :
             beaconOutCoverageRefs'[b] = InitialOutCoverageRef ]_vars

\* C2: while simulated time does not go backwards within a run, the
\* handshake durations of a beacon, summed over all satellites, never
\* exceed the simulated time elapsed.
C2_DurationsWithinElapsed ==
  \A b \in BeaconIds(beaconConfigs) \cap DOMAIN handshakeRefs :
    SumSeq(BeaconDurations(b)) <= simulationTime

\* C3: when the clock driver brings a run to the horizon, every beacon has
\* a stats row whose in-coverage and out-of-coverage totals add up to
\* 86400 seconds, within a second of rounding.
C3_FullRunAccountsForDay ==
  [][ (simulationTime < SIM_DURATION /\ simulationTime' = SIM_DURATION) =>
        /\ "perBeacon" \in DOMAIN stats'
        /\ Len(stats'.perBeacon) = Len(beaconConfigs')
        /\ \A i \in 1..Len(beaconConfigs') :
             LET row == stats'.perBeacon[i]
             IN  row.totalInCoverageTime + row.totalOutOfCoverageTime
                   \in (SIM_DURATION - 1)..(SIM_DURATION + 1) ]_vars

\* the trackers are advanced in this step
Advanced ==
  /\ isRunning'
  /\ \/ simulationTime' # simulationTime
     \/ beaconConfigs' # beaconConfigs
     \/ timeScale' # timeScale
     \/ isRunning' # isRunning

\* C4: an advance at the horizon closes a pair that is open by appending
\* exactly one duration, and a further advance at the same time and with
\* the same coverage appends nothing.
C4_ForceCloseOnce ==
  [][ (Advanced /\ simulationTime' = SIM_DURATION) =>
        \A p \in TrackedPairs \cap TrackedPairs' :
          /\ PairRef(p).isCoveredLast =>
               /\ ~PairRef(p)'.isCoveredLast
               /\ Len(PairRef(p)'.handshakeDurations)
                    = Len(PairRef(p).handshakeDurations) + 1
          /\ ( /\ ~PairRef(p).isCoveredLast
               /\ simulationTime = SIM_DURATION
               /\ perBeaconCoveringRef' = perBeaconCoveringRef ) =>
               PairRef(p)'.handshakeDurations = PairRef(p).handshakeDurations
    ]_vars

\* C5: once simulated time is at the horizon or the driver is not running,
\* no pair is left covered: its handshake was closed.
C5_NoPairCoveredAtEnd ==
  (simulationTime >= SIM_DURATION \/ ~isRunning) =>
    \A p \in TrackedPairs : ~PairRef(p).isCoveredLast

\* C6: once simulated time is at the horizon or the driver is not running,
\* no beacon is left with an open out-of-coverage interval.
C6_NoOpenOutageAtEnd ==
  (simulationTime >= SIM_DURATION \/ ~isRunning) =>
    \A b \in TrackedBeacons :
      beaconOutCoverageRefs[b].lastOutOfCoverageTime = Null

\* C7 as stated: while the simulation stays paused the clock driver cannot
\* advance simulated time and no tracker of a listed beacon changes,
\* whatever else happens.
C7_PausedFreezesTrackers ==
  [][ isPaused =>
        /\ ~updateSimulation
        /\ isPaused' =>
             /\ beaconOutCoverageRefs' = beaconOutCoverageRefs
             /\ \A p \in TrackedPairs \cap TrackedPairs' :
                  PairRef(p)' = PairRef(p) ]_vars

\* C7: while the simulation stays paused the clock driver cannot advance
\* simulated time and no out-of-coverage tracker changes; a pair tracker
\* changes only by being reset to zero when the coverage effect runs at
\* simulated time 0.
C7_PausedFreezesExceptReset ==
  [][ isPaused =>
        /\ ~updateSimulation
        /\ isPaused' =>
             /\ beaconOutCoverageRefs' = beaconOutCoverageRefs
             /\ \A p \in TrackedPairs \cap TrackedPairs' :
                  \/ PairRef(p)' = PairRef(p)
                  \/ /\ simulationTime' = 0
                     /\ PairRef(p)' = ZeroHandshakeRef ]_vars

\* paused with the timeline moved since: a pair is still recorded as
\* covered by a satellite that no longer covers the beacon
C7_Witness ==
  /\ isPaused
  /\ \E p \in TrackedPairs :
       /\ PairRef(p).isCoveredLast
       /\ PairRef(p).handshakeCount > 0
       /\ ~IsCoveredBy(perBeaconCoveringRef, p[1], p[2])

\* C8: evaluating the resolver again on the same time and beacons gives
\* the set it gave before, whatever the wall clock reads by then.
C8_ResolverIdempotent ==
  perBeaconCoveringRef =
    getCoveringIridiumsByBeacon(simulationTime, beaconConfigs, satelliteData, now)

\* C9: every recorded handshake duration and every recorded
\* out-of-coverage duration is at least 0.
C9_DurationsNonNegative ==
  /\ \A p \in TrackedPairs :
       \A i \in 1..Len(PairRef(p).handshakeDurations) :
         PairRef(p).handshakeDurations[i] >= 0
  /\ \A b \in TrackedBeacons :
       \A i \in 1..Len(beaconOutCoverageRefs[b].outOfCoverageDurations) :
         beaconOutCoverageRefs[b].outOfCoverageDurations[i] >= 0

\* the tracker of the scenario's pair
ScenarioRef == handshakeRefs[ScenarioBeacon.id][ScenarioSatellite]

\* three handshakes completed, none longer in total than half the run
ScenarioOutcome ==
  /\ Len(ScenarioRef.handshakeDurations) = 3
  /\ SumSeq(ScenarioRef.handshakeDurations) <= ScenarioEnd \div 2

\* C10 as stated: a run from 0 to 3600 s over coverage that flips every
\* 600 s ends with exactly 3 handshake durations that sum to at most 1800,
\* whichever half-period comes first.
C10_ThreeHandshakes ==
  (isRunning /\ simulationTime = ScenarioEnd) => ScenarioOutcome

\* C10: a run from 0 to 3600 s over coverage that flips every 600 s and
\* starts uncovered ends with exactly 3 handshake durations that sum to at
\* most 1800.
C10_ThreeHandshakesFromUncovered ==
  (isRunning /\ simulationTime = ScenarioEnd /\ now = 0) => ScenarioOutcome

C10_Witness ==
  /\ isRunning /\ simulationTime = ScenarioEnd /\ now = 0
  /\ ScenarioRef.handshakeCount = 3
  /\ SumSeq(ScenarioRef.handshakeDurations) = ScenarioEnd \div 2

\* C11: after an update of the trackers, no handshake tracker and no
\* out-of-coverage tracker is left for a beacon that is not in the list.
C11_RemovedBeaconDiscarded ==
  [][ Advanced =>
        /\ DOMAIN handshakeRefs' \subseteq BeaconIds(beaconConfigs')
        /\ DOMAIN beaconOutCoverageRefs' \subseteq BeaconIds(beaconConfigs')
    ]_vars

\* C12: the beacon list never holds more than 3 beacons, and no two
\* beacons in it have the same id.
C12_AtMostThreeDistinct ==
  /\ Len(beaconConfigs) <= 3
  /\ \A i, j \in 1..Len(beaconConfigs) :
       i # j => beaconConfigs[i].id # beaconConfigs[j].id

\* the list is full after more than 3 beacons were added and some removed
C12_Witness ==
  /\ Len(beaconConfigs) = 3
  /\ beaconCounter > 4
  /\ beaconConfigs[1].id > 0

\* C13: simulated time is always between 0 and 86400, and a frame of the
\* clock driver that would pass the horizon sets it to exactly 86400.
C13_TimeWithinDay ==
  /\ [](simulationTime >= 0 /\ simulationTime <= SIM_DURATION)
  /\ [][ ( /\ updateSimulation
           /\ simulationTime + (now - lastUpdateTime) * timeScale > SIM_DURATION )
         => simulationTime' = SIM_DURATION ]_vars

\* a frame has brought the run to the horizon and stopped it
C13_Witness ==
  /\ simulationTime = SIM_DURATION
  /\ ~isRunning /\ ~isPaused
  /\ lastUpdateTime = now /\ now > 0

\* the (beacon, satellite) of each row the per-satellite table must hold
ExpectedSatelliteRows(configs) ==
  Concat([ i \in 1..Len(configs) |->
             [ j \in 1..Len(satelliteData) |->
                 << configs[i].id, satelliteData[j].OBJECT_NAME >> ] ])

\* C14: every aggregation that follows a change of the beacon list
\* completes, its per-beacon rows are those of the beacons of the current
\* list, in order, and its per-satellite rows are one per current beacon
\* and catalog satellite.
C14_RowsMatchBeaconList ==
  [][ Advanced =>
        /\ "perBeacon" \in DOMAIN prevStatsRef'
        /\ [ i \in 1..Len(prevStatsRef'.perBeacon) |->
               prevStatsRef'.perBeacon[i].beaconId ]
             = [ i \in 1..Len(beaconConfigs') |-> beaconConfigs'[i].id ]
        /\ [ i \in 1..Len(prevStatsRef'.perSatellite) |->
               << prevStatsRef'.perSatellite[i].beaconId,
                  prevStatsRef'.perSatellite[i].satId >> ]
             = ExpectedSatelliteRows(beaconConfigs') ]_vars

\* a beacon was removed during the run while another stays: the removed
\* one still has trackers and has no row
C14_Witness ==
  /\ isRunning /\ simulationTime > 0
  /\ Len(beaconConfigs) > 0
  /\ \E b \in DOMAIN handshakeRefs : b \notin BeaconIds(beaconConfigs)
  /\ "perBeacon" \in DOMAIN prevStatsRef
  /\ Len(prevStatsRef.perBeacon) = Len(beaconConfigs)

\* the raw totals of a beacon, as the trackers hold them
RawInCoverage(hRefs, b) ==
  SumSeq(Concat([ j \in 1..Len(satelliteData) |->
                    hRefs[b][satelliteData[j].OBJECT_NAME].handshakeDurations ]))

RawOutOfCoverage(oRefs, b) == SumSeq(oRefs[b].outOfCoverageDurations)

\* reported is raw * 86400 / sum, rounded down (sum is a multiple of 100)
IsScaledToDay(reported, raw, sum) ==
  /\ reported * (sum \div 100) <= raw * 864
  /\ raw * 864 < (reported + 1) * (sum \div 100)

\* C15: in every aggregation, a beacon whose raw in-coverage and
\* out-of-coverage totals add up to more than 86400 is reported with both
\* totals multiplied by 86400 / sum, so that they add up to 86400 (each
\* rounded down to a second); any other beacon is reported with its raw
\* totals.  No reported sum exceeds 86400.
C15_TotalsNormalised ==
  [][ Advanced =>
        \A i \in 1..Len(beaconConfigs') :
          LET b == beaconConfigs'[i].id
              row == prevStatsRef'.perBeacon[i]
              rawIn == RawInCoverage(handshakeRefs', b)
              rawOut == RawOutOfCoverage(beaconOutCoverageRefs', b)
              reported == row.totalInCoverageTime + row.totalOutOfCoverageTime
          IN  /\ reported <= SIM_DURATION
              /\ IF rawIn + rawOut > SIM_DURATION
                 THEN /\ IsScaledToDay(row.totalInCoverageTime, rawIn, rawIn + rawOut)
                      /\ IsScaledToDay(row.totalOutOfCoverageTime, rawOut, rawIn + rawOut)
                      /\ reported >= SIM_DURATION - 2
                 ELSE /\ row.totalInCoverageTime = rawIn
                      /\ row.totalOutOfCoverageTime = rawOut ]_vars

\* a running beacon whose raw totals exceed a day and whose row was scaled
C15_Witness ==
  /\ isRunning
  /\ \E i \in 1..Len(beaconConfigs) :
       LET b == beaconConfigs[i].id
       IN  /\ b \in DOMAIN handshakeRefs /\ b \in DOMAIN beaconOutCoverageRefs
           /\ RawInCoverage(handshakeRefs, b) + RawOutOfCoverage(beaconOutCoverageRefs, b) > SIM_DURATION
           /\ RawOutOfCoverage(beaconOutCoverageRefs, b) > 0
           /\ prevStatsRef.perBeacon[i].totalInCoverageTime < RawInCoverage(handshakeRefs, b)
           /\ prevStatsRef.perBeacon[i].totalOutOfCoverageTime < RawOutOfCoverage(beaconOutCoverageRefs, b)

\* C16: the resolver produces no result for a beacon whose altitude is not
\* positive: its position computation ends in an error instead.
C16_InvalidOrbitRejected ==
  \A i \in 1..Len(beaconConfigs) :
    beaconConfigs[i].altitude <= 0 =>
      beaconConfigs[i].id \notin DOMAIN perBeaconCoveringRef

\* the rounding of the fixed-point position, in km
RadiusTolerance == EARTH_RADIUS \div 500

OnOrbitRadius(pos, altitude) ==
  /\ VecLength(pos) >= EARTH_RADIUS + altitude - RadiusTolerance
  /\ VecLength(pos) <= EARTH_RADIUS + altitude + RadiusTolerance

ValidSatellites ==
  { k \in 1..Len(OrbitCatalog) :
      OrbitCatalog[k].altitude > 0 /\ OrbitCatalog[k].period[1] > 0 }

\* C17: for valid parameters the position of a beacon or of a satellite at
\* time t is fixed by the parameters and t alone (whatever the wall clock
\* reads) and lies at EARTH_RADIUS + altitude from the centre.
C17_PositionDetermined ==
  /\ \A i \in 1..Len(beaconConfigs) :
       LET b == beaconConfigs[i]
       IN  b.altitude > 0 =>
             /\ OnOrbitRadius(BeaconPositionInResolver(b, simulationTime), b.altitude)
             /\ OnOrbitRadius(getOrbitalPosition(b.altitude, simulationTime,
                                b.inclination, b.isSunSync, b.lst), b.altitude)
  /\ \A k \in ValidSatellites :
       /\ OnOrbitRadius(SatellitePosition(OrbitCatalog[k], simulationTime, now),
                        OrbitCatalog[k].altitude)
       /\ \A wall \in OrbitWallClocks :
            SatellitePosition(OrbitCatalog[k], simulationTime, wall)
              = SatellitePosition(OrbitCatalog[k], simulationTime, now)

\* the first effect rebuilds the handshake trackers in this step
HandshakeRefsReset ==
  /\ simulationTime' = 0
  /\ \/ simulationTime # 0
     \/ beaconConfigs' # beaconConfigs
     \/ timeScale' # timeScale

\* the tracker of pair (b, s) as the tracker step of this step finds it
StepStart(b, s) ==
  IF HandshakeRefsReset \/ b \notin DOMAIN handshakeRefs
  THEN ZeroHandshakeRef
  ELSE handshakeRefs[b][s]

\* pair (b, s) was not covered at the previous step and is covered now
CoverageRises(b, s) ==
  ~StepStart(b, s).isCoveredLast /\ IsCoveredBy(perBeaconCoveringRef', b, s)

\* C18: in a tracker step at time t, a pair whose coverage rises gets
\* handshakeCount + 1 and lastHandshakeStart = t (below the horizon, where
\* no closing block follows in the same effect); a pair whose coverage does
\* not rise keeps its handshakeCount.
C18_RisingEdgeCounted ==
  [][ Advanced =>
        \A b \in BeaconIds(beaconConfigs') : \A s \in SatIds :
          LET before == StepStart(b, s)
              after == handshakeRefs'[b][s]
          IN  IF CoverageRises(b, s)
              THEN /\ after.handshakeCount = before.handshakeCount + 1
                   /\ simulationTime' < SIM_DURATION =>
                        after.lastHandshakeStart = simulationTime'
              ELSE after.handshakeCount = before.handshakeCount ]_vars

\* a second handshake of a pair has just started
C18_Witness ==
  /\ isRunning /\ simulationTime > 0 /\ simulationTime < SIM_DURATION
  /\ \E p \in TrackedPairs :
       /\ PairRef(p).handshakeCount = 2
       /\ PairRef(p).isCoveredLast
       /\ PairRef(p).lastHandshakeStart = simulationTime

\* pair (b, s) was covered at the previous step and is not covered now
CoverageFalls(b, s) ==
  StepStart(b, s).isCoveredLast /\ ~IsCoveredBy(perBeaconCoveringRef', b, s)

\* C19: in a tracker step at time t, a pair whose coverage falls gets the
\* duration t - lastHandshakeStart appended exactly when lastHandshakeStart
\* is positive; an open handshake that started at time 0 has been counted
\* and no step, the closing at the horizon included, records a duration
\* for it.
C19_FallingEdgeRecorded ==
  [][ Advanced =>
        \A b \in BeaconIds(beaconConfigs') : \A s \in SatIds :
          LET before == StepStart(b, s)
              after == handshakeRefs'[b][s]
          IN  /\ CoverageFalls(b, s) =>
                   after.handshakeDurations =
                     IF before.lastHandshakeStart > 0
                     THEN Append(before.handshakeDurations,
                                 simulationTime' - before.lastHandshakeStart)
                     ELSE before.handshakeDurations
              /\ (before.isCoveredLast /\ before.lastHandshakeStart = 0) =>
                   /\ before.handshakeCount >= 1
                   /\ after.handshakeDurations = before.handshakeDurations ]_vars

\* a handshake that started at 0 has ended without a duration, and another
\* pair's handshake has just ended with one
C19_Witness ==
  /\ isRunning /\ simulationTime > 0 /\ simulationTime < SIM_DURATION
  /\ \E p \in TrackedPairs :
       /\ PairRef(p).handshakeCount = 1
       /\ ~PairRef(p).isCoveredLast
       /\ PairRef(p).lastHandshakeStart = 0
       /\ PairRef(p).handshakeDurations = << >>
  /\ \E q \in TrackedPairs :
       /\ ~PairRef(q).isCoveredLast
       /\ PairRef(q).lastHandshakeStart > 0
       /\ PairRef(q).handshakeDurations
            = << simulationTime - PairRef(q).lastHandshakeStart >>

\* the out-of-coverage tracker of beacon b as the tracker step finds it
OutStepStart(b) ==
  IF b \in DOMAIN beaconOutCoverageRefs
  THEN beaconOutCoverageRefs[b]
  ELSE InitialOutCoverageRef

\* the tracker step below the horizon, where no closing block follows
AdvancedBelowHorizon == Advanced /\ simulationTime' < SIM_DURATION

\* the beacon loses coverage at t, or neither gains nor loses it
OutOfCoverageElse(before, after, isNowCovered, time) ==
  IF ~before.isOutOfCoverage /\ ~isNowCovered
  THEN after = [before EXCEPT !.lastOutOfCoverageTime = <<time>>,
                              !.isOutOfCoverage = TRUE]
  ELSE after = before

RecordedHandshakes(hRefs, b) ==
  Len(Concat([ j \in 1..Len(satelliteData) |->
                 hRefs[b][satelliteData[j].OBJECT_NAME].handshakeDurations ]))

\* the handshakes a beacon has counted, over its satellites
CountedHandshakes(hRefs, b) ==
  SumSeq([ j \in 1..Len(satelliteData) |->
             hRefs[b][satelliteData[j].OBJECT_NAME].handshakeCount ])

\* avg is total / n rounded down, and 0 when n is 0
IsAverage(avg, total, n) ==
  IF n = 0 THEN avg = 0
  ELSE avg * n <= total /\ total < (avg + 1) * n

\* C21: in every stats snapshot the row of a beacon holds the sum of its
\* satellites' handshake counts, the raw in-coverage total divided by the
\* number of recorded handshake durations (0 if none) and the raw
\* out-of-coverage total divided by the number of recorded out-of-coverage
\* durations (0 if none); its totals are the raw sums unless these add up to
\* more than a day.
C21_RowsAggregateTrackers ==
  [][ Advanced =>
        \A i \in 1..Len(beaconConfigs') :
          LET b == beaconConfigs'[i].id
              row == prevStatsRef'.perBeacon[i]
              rawIn == RawInCoverage(handshakeRefs', b)
              rawOut == RawOutOfCoverage(beaconOutCoverageRefs', b)
          IN  /\ row.beaconId = b
              /\ row.handshakeCount = CountedHandshakes(handshakeRefs', b)
              /\ IsAverage(row.avgInCoverageTime, rawIn,
                           RecordedHandshakes(handshakeRefs', b))
              /\ IsAverage(row.avgOutOfCoverageTime, rawOut,
                           Len(beaconOutCoverageRefs'[b].outOfCoverageDurations))
              /\ rawIn + rawOut <= SIM_DURATION =>
                   /\ row.totalInCoverageTime = rawIn
                   /\ row.totalOutOfCoverageTime = rawOut ]_vars

\* a row that averages two handshake durations of different satellites
C21_Witness ==
  /\ isRunning /\ "perBeacon" \in DOMAIN prevStatsRef
  /\ \E i \in 1..Len(beaconConfigs) :
       LET b == beaconConfigs[i].id
           row == prevStatsRef.perBeacon[i]
       IN  /\ b \in DOMAIN handshakeRefs
           /\ i <= Len(prevStatsRef.perBeacon)
           /\ RecordedHandshakes(handshakeRefs, b) = 2
           /\ row.handshakeCount >= 2
           /\ row.avgInCoverageTime > 0
           /\ row.avgInCoverageTime * 2 = row.totalInCoverageTime
           /\ row.totalInCoverageTime = RawInCoverage(handshakeRefs, b)

\* the projection of (target - apex) onto the axis from the apex to the origin
HeightOnAxis(target, apex) ==
  (0 - Dot(VecSub(target, apex), apex)) \div VecLength(apex)

\* the distance of the target from that axis
RadialDistance(target, apex) ==
  LET along == HeightOnAxis(target, apex)
      len == VecLength(apex)
      v == VecSub(target, apex)
  IN  VecLength(<< v[1] + (apex[1] * along) \div len,
                   v[2] + (apex[2] * along) \div len,
                   v[3] + (apex[3] * along) \div len >>)

\* the resolver has been applied to the drawn inputs
Resolved == DOMAIN perBeaconCoveringRef # {}

\* C22: the cone test, as the resolver applies it to a beacon and a
\* satellite, fails when the beacon's height on the cone's axis is below 0
\* or above h = satellite altitude + CONE_HEIGHT_FACTOR; otherwise it
\* succeeds exactly when the beacon's distance from the axis is at most
\* (CONE_RADIUS / h) * height, the cone's surface included.
C22_ConeTest ==
  Resolved =>
    \A i \in 1..Len(beaconConfigs) : \A k \in 1..Len(OrbitCatalog) :
      LET sat == OrbitCatalog[k]
          target == BeaconPositionInResolver(beaconConfigs[i], simulationTime)
          apex == SatellitePosition(sat, simulationTime, now)
          h == sat.altitude + CONE_HEIGHT_FACTOR
          height == HeightOnAxis(target, apex)
          covered == sat.OBJECT_NAME \in perBeaconCoveringRef[beaconConfigs[i].id]
      IN  IF height < 0 \/ height > h
          THEN ~covered
          ELSE covered <=> (RadialDistance(target, apex) * h <= CONE_RADIUS * height)

\* the test has accepted a beacon on the cone's surface and rejected the
\* same beacon for another satellite, its height being above h
C22_Witness ==
  /\ Resolved
  /\ \E i \in 1..Len(beaconConfigs) :
       LET target == BeaconPositionInResolver(beaconConfigs[i], simulationTime)
           Apex(k) == SatellitePosition(OrbitCatalog[k], simulationTime, now)
           H(k) == OrbitCatalog[k].altitude + CONE_HEIGHT_FACTOR
       IN  /\ \E k \in 1..Len(OrbitCatalog) :
                /\ OrbitCatalog[k].OBJECT_NAME \in perBeaconCoveringRef[beaconConfigs[i].id]
                /\ RadialDistance(target, Apex(k))
                     = (CONE_RADIUS * HeightOnAxis(target, Apex(k))) \div H(k)
           /\ \E k \in 1..Len(OrbitCatalog) : HeightOnAxis(target, Apex(k)) > H(k)

\* the beacon's position as the position calculator is called for it:
\* inclination 97.5 degrees for a sun-synchronous beacon
CalculatorPosition(beaconConfig, time) ==
  getOrbitalPosition(beaconConfig.altitude, time,
                     IF beaconConfig.isSunSync THEN 97 ELSE beaconConfig.inclination,
                     beaconConfig.isSunSync, beaconConfig.lst)

\* C23: the covering set the resolver returns for a beacon is the set of
\* satellites whose cone holds the beacon's position as the position
\* calculator gives it (rotated by RAAN and inclination), both positions
\* taken at min(t, 86400).
C23_ConeOnCalculatorPosition ==
  Resolved =>
    \A i \in 1..Len(beaconConfigs) : \A k \in 1..Len(OrbitCatalog) :
      beaconConfigs[i].altitude > 0 =>
        ( OrbitCatalog[k].OBJECT_NAME \in perBeaconCoveringRef[beaconConfigs[i].id]
          <=> isBeaconInCone(CalculatorPosition(beaconConfigs[i], Min(simulationTime, 86400)),
                             SatellitePosition(OrbitCatalog[k], Min(simulationTime, 86400), now),
                             OrbitCatalog[k].altitude) )

\* the listed beacons the trackers see for the first time in this step
FirstSeen == BeaconIds(beaconConfigs') \ DOMAIN beaconOutCoverageRefs

\* C24: a beacon the trackers see for the first time at time t0 is tracked
\* from zero handshake trackers (count 0, no durations, not covered) and
\* from an out-of-coverage tracker that is out of coverage since time 0
\* with no durations: after the step each pair has counted 1 handshake if
\* it is covered and 0 if not, and the beacon has recorded the interval
\* 0..t0 if it is covered and has its interval still open since 0 if not
\* (closed as 0..86400 at the horizon).
C24_FirstSeenFromZero ==
  [][ Advanced =>
        \A b \in FirstSeen :
          LET after == beaconOutCoverageRefs'[b]
              belowHorizon == simulationTime' < SIM_DURATION
          IN  /\ after =
                   IF HasCoverage(perBeaconCoveringRef', b)
                   THEN [outOfCoverageDurations |-> << simulationTime' >>,
                         lastOutOfCoverageTime |-> Null,
                         isOutOfCoverage |-> FALSE]
                   ELSE IF belowHorizon
                   THEN [outOfCoverageDurations |-> << >>,
                         lastOutOfCoverageTime |-> << 0 >>,
                         isOutOfCoverage |-> TRUE]
                   ELSE [outOfCoverageDurations |-> << SIM_DURATION >>,
                         lastOutOfCoverageTime |-> Null,
                         isOutOfCoverage |-> TRUE]
              /\ \A s \in SatIds :
                   LET ref == handshakeRefs'[b][s]
                       covered == IsCoveredBy(perBeaconCoveringRef', b, s)
                   IN  /\ ref.handshakeCount = IF covered THEN 1 ELSE 0
                       /\ belowHorizon =>
                            /\ ref.handshakeDurations = << >>
                            /\ ref.isCoveredLast = covered
                            /\ ref.lastHandshakeStart
                                 = IF covered THEN simulationTime' ELSE 0 ]_vars

\* a beacon added in mid-run and covered at once: one handshake started now
\* and an out-of-coverage duration as long as the run so far
C24_Witness ==
  /\ isRunning /\ simulationTime > 0 /\ simulationTime < SIM_DURATION
  /\ \E b \in TrackedBeacons :
       /\ beaconOutCoverageRefs[b].outOfCoverageDurations = << simulationTime >>
       /\ ~beaconOutCoverageRefs[b].isOutOfCoverage
       /\ b \in DOMAIN handshakeRefs
       /\ \E s \in SatIds :
            /\ handshakeRefs[b][s].handshakeCount = 1
            /\ handshakeRefs[b][s].lastHandshakeStart = simulationTime
            /\ handshakeRefs[b][s].handshakeDurations = << >>

\* the clock driver brings the run to the horizon in this step
ReachesHorizon ==
  /\ updateSimulation
  /\ simulationTime + (now - lastUpdateTime) * timeScale >= SIM_DURATION

\* C25: isRunning and isPaused are never both true; Start or Continue
\* leaves the driver running and not paused, Pause paused and not running,
\* Reset and the frame that reaches the horizon neither.
C25_RunningXorPaused ==
  /\ [](~(isRunning /\ isPaused))
  /\ [][ /\ handleStart => (isRunning' /\ ~isPaused')
         /\ handlePause => (~isRunning' /\ isPaused')
         /\ handleReset => (~isRunning' /\ ~isPaused')
         /\ ReachesHorizon => (~isRunning' /\ ~isPaused') ]_vars

\* a paused run
C25_Witness ==
  isPaused /\ ~isRunning /\ simulationTime > 0 /\ simulationTime < SIM_DURATION

\* C26: with frames that keep coming, each a positive time after the last,
\* a run that is not paused, reset or scrubbed reaches simulationTime =
\* 86400 with isRunning and isPaused both false, and from then on no frame
\* changes simulationTime.
C26_RunReachesHorizon ==
  /\ (isRunning /\ ~isPaused)
       ~> (simulationTime = SIM_DURATION /\ ~isRunning /\ ~isPaused)
  /\ [][ (simulationTime = SIM_DURATION /\ ~isRunning)
           => (simulationTime' = SIM_DURATION /\ ~isRunning') ]_vars

\* a run at half the default time scale has ended at the horizon
C26_Witness ==
  /\ simulationTime = SIM_DURATION /\ ~isRunning /\ ~isPaused
  /\ timeScale = DEFAULT_TIME_SCALE \div 2
  /\ now >= 3 * WallStep

\* Start pressed while paused
Continue == isPaused /\ handleStart

\* C27 as stated: Continue sets isRunning and clears isPaused and leaves
\* simulationTime, stats and every tracker unchanged; Start pressed while
\* not paused sets simulationTime to 0 and runs.
C27_ContinueChangesNothing ==
  [][ /\ Continue =>
           /\ isRunning' /\ ~isPaused'
           /\ UNCHANGED << simulationTime, stats, handshakeRefs,
                           beaconOutCoverageRefs >>
      /\ (handleStart /\ ~isPaused) =>
           (isRunning' /\ ~isPaused' /\ simulationTime' = 0) ]_vars

\* every listed beacon has its trackers, and these have seen the coverage
\* last resolved: nothing happened during the pause that the trackers have
\* yet to take in
TrackersInSync ==
  \A b \in BeaconIds(beaconConfigs) :
    /\ b \in DOMAIN handshakeRefs /\ b \in DOMAIN beaconOutCoverageRefs
    /\ \A s \in SatIds :
         handshakeRefs[b][s].isCoveredLast = IsCoveredBy(perBeaconCoveringRef, b, s)
    /\ beaconOutCoverageRefs[b].isOutOfCoverage = ~HasCoverage(perBeaconCoveringRef, b)

\* C27: Continue sets isRunning, clears isPaused and leaves simulationTime
\* unchanged; below the horizon it leaves every tracker unchanged if the
\* trackers have seen the coverage last resolved for the listed beacons, and
\* stats is then either unchanged or the aggregate of these trackers.
\* Start pressed while not paused sets simulationTime to 0 and runs.
C27_ContinueInSync ==
  [][ /\ Continue =>
           /\ isRunning' /\ ~isPaused'
           /\ UNCHANGED simulationTime
           /\ (TrackersInSync /\ simulationTime < SIM_DURATION) =>
                /\ UNCHANGED << handshakeRefs, beaconOutCoverageRefs >>
                /\ stats' \in {stats, AggregateStats(beaconConfigs, handshakeRefs,
                                                     beaconOutCoverageRefs)}
      /\ (handleStart /\ ~isPaused) =>
           (isRunning' /\ ~isPaused' /\ simulationTime' = 0) ]_vars

\* a paused run below the horizon, its trackers in sync, with a handshake
\* open at the pause: the state Continue acts on
C27_Witness ==
  /\ isPaused /\ ~isRunning /\ TrackersInSync
  /\ simulationTime > 0 /\ simulationTime < SIM_DURATION
  /\ \E p \in TrackedPairs :
       PairRef(p).isCoveredLast /\ PairRef(p).lastHandshakeStart > 0

\* C28: a beacon that is not out of coverage has no open interval: its
\* lastOutOfCoverageTime is null; an interval is open only while
\* isOutOfCoverage is true.
C28_OpenIntervalOnlyWhenOut ==
  \A b \in DOMAIN beaconOutCoverageRefs :
    /\ ~beaconOutCoverageRefs[b].isOutOfCoverage =>
         beaconOutCoverageRefs[b].lastOutOfCoverageTime = Null
    /\ beaconOutCoverageRefs[b].lastOutOfCoverageTime # Null =>
         beaconOutCoverageRefs[b].isOutOfCoverage

\* a beacon in coverage again after it lost coverage and an interval of
\* positive length was recorded for it
C28_Witness ==
  \E b \in DOMAIN beaconOutCoverageRefs :
    /\ ~beaconOutCoverageRefs[b].isOutOfCoverage
    /\ beaconOutCoverageRefs[b].lastOutOfCoverageTime = Null
    /\ Len(beaconOutCoverageRefs[b].outOfCoverageDurations) > 1
    /\ beaconOutCoverageRefs[b].outOfCoverageDurations[2] > 0

\* C29: for every (beacon, satellite) pair the number of recorded handshake
\* durations is at most handshakeCount: a counted handshake contributes at
\* most one duration, closed by a falling edge or by the force-close at the
\* horizon.
C29_DurationsWithinCount ==
  \A p \in TrackedPairs :
    Len(PairRef(p).handshakeDurations) <= PairRef(p).handshakeCount

\* at the horizon, a pair with two handshakes counted and a duration of
\* positive length recorded for each, none of them open
C29_Witness ==
  /\ simulationTime = SIM_DURATION
  /\ \E p \in TrackedPairs :
       /\ PairRef(p).handshakeCount >= 2
       /\ Len(PairRef(p).handshakeDurations) = PairRef(p).handshakeCount
       /\ \A i \in DOMAIN PairRef(p).handshakeDurations :
            PairRef(p).handshakeDurations[i] > 0
       /\ ~PairRef(p).isCoveredLast

\* the tracker step runs again at the same time below the horizon, on the same
\* beacon list and the same coverage
Rerun ==
  /\ Advanced
  /\ simulationTime' = simulationTime /\ simulationTime < SIM_DURATION
  /\ beaconConfigs' = beaconConfigs
  /\ perBeaconCoveringRef' = perBeaconCoveringRef

\* what the preceding step on this time, list and coverage left behind: the
\* trackers have seen the coverage and the last snapshot is their aggregate
PrecedingStepSame ==
  /\ TrackersInSync
  /\ prevStatsRef = AggregateStats(beaconConfigs, handshakeRefs, beaconOutCoverageRefs)

\* C30: re-running the tracker step at the same t < 86400, on the same beacon
\* list and coverage sets as the preceding step, leaves every handshake and
\* out-of-coverage tracker and the computed stats unchanged; the effect
\* publishes no snapshot, so stats is what the handler left.
C30_RerunIdempotent ==
  [][ (Rerun /\ PrecedingStepSame) =>
        /\ UNCHANGED << handshakeRefs, beaconOutCoverageRefs, prevStatsRef >>
        /\ stats' = IF handleStart /\ ~isPaused THEN initialStats ELSE stats ]_vars

\* a run below the horizon at a changed time scale, its trackers as the last
\* step left them, with a handshake open since a time after 0
C30_Witness ==
  /\ isRunning /\ ~isPaused /\ PrecedingStepSame
  /\ simulationTime > 0 /\ simulationTime < SIM_DURATION
  /\ timeScale # DEFAULT_TIME_SCALE
  /\ \E p \in TrackedPairs :
       /\ PairRef(p).isCoveredLast /\ PairRef(p).lastHandshakeStart > 0
       /\ PairRef(p).handshakeCount > 0

=============================================================================
